---- MODULE Spec2Model ----
(***************************************************************************)
(* Model of client/app.py: the local settings store (two text files), the  *)
(* backend client (license verify, upload, chat) and the export writer.    *)
(*                                                                         *)
(* A text is a sequence of symbols.  A symbol is a one-character string,   *)
(* or a longer string standing for a fixed run of characters that holds no *)
(* line boundary (a message of the program, the text of an exception, a    *)
(* file name).  The settings, the keys and URLs typed in, and the contents *)
(* exported are texts of single characters.                                *)
(***************************************************************************)
EXTENDS Integers, Sequences, FiniteSets, TLC

VARIABLES
    BACKEND_FILE,   \* .secrets/backend_url.txt: [exists, text]
    LICENSE_FILE,   \* .secrets/license_key.txt: [exists, text]
    last,           \* the last handler run: its arguments, the requests it issued, its outcome
    hist_backend,   \* history: the argument of the most recent save_backend that returned
    hist_license    \* history: the argument of the most recent save_license that returned

vars == <<BACKEND_FILE, LICENSE_FILE, last, hist_backend, hist_license>>

-----------------------------------------------------------------------------
(* Bounds of the model. *)

MaxKeyLen == 8      \* longest run of key characters tried as a license key
MaxFiles == 2       \* most files in one upload batch
MaxText == 3        \* longest content handed to the export functions directly

-----------------------------------------------------------------------------
(* Python's str methods, on texts. *)

Whitespace == {" ", "\t", "\n", "\r", "\f"}

RECURSIVE lstrip(_)
lstrip(s) ==
    IF s # <<>> /\ Head(s) \in Whitespace THEN lstrip(Tail(s)) ELSE s

RECURSIVE rstrip(_)
rstrip(s) ==
    IF s # <<>> /\ s[Len(s)] \in Whitespace
    THEN rstrip(SubSeq(s, 1, Len(s) - 1))
    ELSE s

\* Mutant: only the leading whitespace goes.
strip_leading_only(s) == lstrip(s)

strip(s) == rstrip(lstrip(s))

startswith(s, p) == Len(s) >= Len(p) /\ SubSeq(s, 1, Len(p)) = p

LineBreaks == {"\n", "\r", "\f"}

\* The index of the first line boundary of s at or after i, 0 when there is none.
RECURSIVE first_break(_, _)
first_break(s, i) ==
    IF i > Len(s) THEN 0
    ELSE IF s[i] \in LineBreaks THEN i
    ELSE first_break(s, i + 1)

\* str.splitlines(): the lines of s without their boundaries; "\r\n" is one
\* boundary, and a boundary at the very end opens no further line.
RECURSIVE splitlines(_)
splitlines(s) ==
    IF s = <<>> THEN <<>>
    ELSE LET b == first_break(s, 1)
             e == IF b > 0 /\ s[b] = "\r" /\ b < Len(s) /\ s[b + 1] = "\n"
                  THEN b + 1 ELSE b
         IN  IF b = 0 THEN <<s>>
             ELSE <<SubSeq(s, 1, b - 1)>> \o splitlines(SubSeq(s, e + 1, Len(s)))

\* sep.join(parts)
RECURSIVE join(_, _)
join(sep, parts) ==
    IF parts = <<>> THEN <<>>
    ELSE IF Len(parts) = 1 THEN parts[1]
    ELSE parts[1] \o sep \o join(sep, Tail(parts))

-----------------------------------------------------------------------------
(* The settings store. *)

HTTP == <<"h", "t", "t", "p">>

DEFAULT_BACKEND ==
    <<"h", "t", "t", "p", ":", "/", "/", "l", "o", "c", "a", "l", "h", "o", "s", "t",
      ":", "8", "0", "0", "0">>

MinLicenseLen == 8

NoFile == [exists |-> FALSE, text |-> <<>>]

\* Path.write_text(text): the file exists afterwards and holds text.
write_text(text) == [exists |-> TRUE, text |-> text]

\* Mutant: the file is read whether or not it exists.
get_backend_no_default == strip(BACKEND_FILE.text)

get_backend ==
    IF BACKEND_FILE.exists THEN strip(BACKEND_FILE.text) ELSE DEFAULT_BACKEND

\* Mutant: the key is read from the other settings file.
get_license_wrong_file ==
    IF LICENSE_FILE.exists THEN strip(BACKEND_FILE.text) ELSE <<>>

get_license ==
    IF LICENSE_FILE.exists THEN strip(LICENSE_FILE.text) ELSE <<>>

\* What a handler leaves behind: op and arg name the call, reqs are the HTTP
\* requests it issued in order, exc is "" when it returned and the exception's
\* type when it raised, ret (and ret2) what it returned or the exception's
\* message, doc the document it wrote.
Result(op, arg) ==
    [op |-> op, arg |-> arg, resps |-> <<>>, reqs |-> <<>>, exc |-> "",
     ret |-> <<>>, ret2 |-> <<>>, doc |-> <<>>]

\* The check mark (U+2705) and the cross mark (U+274C) that open the
\* program's status messages, as symbols.
OK_MARK == "(v)"
ERR_MARK == "(x)"

Saved == <<OK_MARK, " ", "Saved">>

backend_url_rejected(url) == ~startswith(url, HTTP)

save_backend(url) ==
    IF backend_url_rejected(url)
    THEN /\ last' = [Result("save_backend", url) EXCEPT
                        !.exc = "gr.Error",
                        !.ret = <<"Enter a full URL, e.g., http://localhost:8000">>]
         /\ UNCHANGED <<BACKEND_FILE, LICENSE_FILE, hist_backend, hist_license>>
    ELSE /\ BACKEND_FILE' = write_text(strip(url))
         /\ last' = [Result("save_backend", url) EXCEPT !.ret = Saved]
         /\ hist_backend' = [saved |-> TRUE, arg |-> url]
         /\ UNCHANGED <<LICENSE_FILE, hist_license>>

\* Mutant: the length is taken before trimming.
license_key_rejected_untrimmed(key) == Len(key) < MinLicenseLen

license_key_rejected(key) == Len(strip(key)) < MinLicenseLen

save_license(key) ==
    IF license_key_rejected(key)
    THEN /\ last' = [Result("save_license", key) EXCEPT
                        !.exc = "gr.Error",
                        !.ret = <<"License looks too short.">>]
         /\ UNCHANGED <<BACKEND_FILE, LICENSE_FILE, hist_backend, hist_license>>
    ELSE /\ LICENSE_FILE' = write_text(strip(key))
         /\ last' = [Result("save_license", key) EXCEPT !.ret = Saved]
         /\ hist_license' = [saved |-> TRUE, arg |-> key]
         /\ UNCHANGED <<BACKEND_FILE, hist_backend>>

-----------------------------------------------------------------------------
(* The backend client.  What the backend does with one request is an outcome: *)
(* requests.post raises (kind "exc": unreachable, timed out), or a response   *)
(* arrives (kind "resp") with a status and a body; a body has its text, and   *)
(* when json is TRUE parses to the JSON object obj (a function of its keys).  *)

Exc(e) == [kind |-> "exc", exc |-> e, status |-> 0,
           body |-> [text |-> "", json |-> FALSE, obj |-> <<>>]]

Resp(status, body) == [kind |-> "resp", exc |-> "", status |-> status, body |-> body]

NotJson(text) == [text |-> text, json |-> FALSE, obj |-> <<>>]

Json(text, obj) == [text |-> text, json |-> TRUE, obj |-> obj]

Request(path, key, timeout, data) ==
    [url |-> get_backend \o <<path>>, key |-> key, timeout |-> timeout, data |-> data]

\* Mutant: only a server error raises.
raise_for_status_5xx_only(status) == 500 <= status /\ status < 600

\* Response.raise_for_status(): raises HTTPError for a 4xx or 5xx status.
raise_for_status(status) == 400 <= status /\ status < 600

\* requests.post(...); raise_for_status(); .json(): the parsed object, or the
\* exception raised on the way.
post_json(out) ==
    IF out.kind = "exc" THEN [ok |-> FALSE, e |-> out.exc, data |-> <<>>]
    ELSE IF raise_for_status(out.status)
    THEN [ok |-> FALSE, e |-> "HTTPError", data |-> <<>>]
    ELSE IF ~out.body.json
    THEN [ok |-> FALSE, e |-> "JSONDecodeError", data |-> <<>>]
    ELSE [ok |-> TRUE, e |-> "", data |-> out.body.obj]

has_key(data, k) == k \in DOMAIN data

NeedLicense == <<"Save a license key first.">>

\* The body of check_license's try block, and its except clause.
license_status(out) ==
    LET r == post_json(out)
    IN  IF ~r.ok THEN <<ERR_MARK, " ", r.e>>
        ELSE IF ~has_key(r.data, "plan") THEN <<ERR_MARK, " ", "KeyError">>
        ELSE IF ~has_key(r.data, "quota_remaining") THEN <<ERR_MARK, " ", "KeyError">>
        ELSE <<OK_MARK, " ", "Plan: ", r.data.plan, " | Remaining: ",
               ToString(r.data.quota_remaining)>>

check_license(out) ==
    LET key == get_license
        res == Result("check_license", <<>>)
    IN  /\ last' = IF key = <<>>
                   THEN [res EXCEPT !.ret = <<ERR_MARK, " ", "No license saved">>]
                   ELSE [res EXCEPT
                            !.resps = <<out>>,
                            !.reqs = <<Request("/api/license/verify", key, 15, <<>>)>>,
                            !.ret = license_status(out)]
        /\ UNCHANGED <<BACKEND_FILE, LICENSE_FILE, hist_backend, hist_license>>

chunks_added(data) == IF has_key(data, "chunks_added") THEN data.chunks_added ELSE 0

\* Mutant: only an error status stops the batch.
upload_failed_on_error_status(r) == r.status >= 400

\* The response of file i stops the batch: the status is not 200.
upload_failed(r) == r.status # 200

\* The for loop of upload_file from file i on: the requests issued so far are
\* reqs and the chunks counted so far total_chunks.
RECURSIVE upload_loop(_, _, _, _, _, _)
upload_loop(files, outs, key, i, total_chunks, reqs) ==
    IF i > Len(files)
    THEN [reqs |-> reqs, exc |-> "",
          ret |-> <<OK_MARK, " ", "Uploaded. ", ToString(total_chunks), " chunks added.">>]
    ELSE LET r == outs[i]
             sent == Append(reqs, Request("/api/upload", key, 120, <<files[i]>>))
         IN  IF r.kind = "exc"
             THEN [reqs |-> sent, exc |-> r.exc, ret |-> <<r.exc>>]
             ELSE IF upload_failed(r)
             THEN [reqs |-> sent, exc |-> "",
                   ret |-> <<ERR_MARK, " ", "Upload failed for ", files[i], ": ", r.body.text>>]
             ELSE IF ~r.body.json
             THEN [reqs |-> sent, exc |-> "JSONDecodeError", ret |-> <<"JSONDecodeError">>]
             ELSE upload_loop(files, outs, key, i + 1,
                              total_chunks + chunks_added(r.body.obj), sent)

\* Mutant: the key is not looked at before the loop.
upload_file_without_key_check(files, outs) ==
    LET key == get_license
        res == Result("upload_file", files)
        run == upload_loop(files, outs, key, 1, 0, <<>>)
    IN  /\ last' = IF files = <<>>
                   THEN [res EXCEPT !.ret = <<"No file selected.">>]
                   ELSE [res EXCEPT !.resps = outs, !.reqs = run.reqs,
                                    !.exc = run.exc, !.ret = run.ret]
        /\ UNCHANGED <<BACKEND_FILE, LICENSE_FILE, hist_backend, hist_license>>

upload_file(files, outs) ==
    LET key == get_license
        res == Result("upload_file", files)
        run == upload_loop(files, outs, key, 1, 0, <<>>)
    IN  /\ last' = IF files = <<>>
                   THEN [res EXCEPT !.ret = <<"No file selected.">>]
                   ELSE IF key = <<>>
                   THEN [res EXCEPT !.exc = "gr.Error", !.ret = NeedLicense]
                   ELSE [res EXCEPT !.resps = outs, !.reqs = run.reqs,
                                    !.exc = run.exc, !.ret = run.ret]
        /\ UNCHANGED <<BACKEND_FILE, LICENSE_FILE, hist_backend, hist_license>>

\* The body of chat's try block, and its except clause: (answer, citations).
chat_reply(out) ==
    LET r == post_json(out)
    IN  IF ~r.ok THEN <<<<ERR_MARK, " ", r.e>>, <<>>>>
        ELSE IF ~has_key(r.data, "answer") THEN <<<<ERR_MARK, " ", "KeyError">>, <<>>>>
        ELSE <<r.data.answer,
               <<"Citations: ">> \o
                   join(<<",", " ">>,
                        IF has_key(r.data, "citations") THEN r.data.citations ELSE <<>>)>>

chat(msg, mode, out) ==
    LET key == get_license
        res == Result("chat", <<msg, <<mode>>>>)
        reply == chat_reply(out)
    IN  /\ last' = IF key = <<>>
                   THEN [res EXCEPT !.exc = "gr.Error", !.ret = NeedLicense]
                   ELSE [res EXCEPT
                            !.resps = <<out>>,
                            !.reqs = <<Request("/api/chat", key, 120, <<msg, <<mode>>>>)>>,
                            !.ret = reply[1], !.ret2 = reply[2]]
        /\ UNCHANGED <<BACKEND_FILE, LICENSE_FILE, hist_backend, hist_license>>

-----------------------------------------------------------------------------
(* The export writer. *)

\* Mutant: no line is put in for an empty content.
lines_without_blank(content) == splitlines(content)

\* content.splitlines() or [""]
lines_or_blank(content) ==
    LET lines == splitlines(content)
    IN  IF lines = <<>> THEN << <<>> >> ELSE lines

Headers ==
    << <<"Control No">>, <<"Control Name">>, <<"Question">>,
       <<"Example how to demonstrate question">>, <<"Implementation">>, <<"Evidence">>,
       <<"C">>, <<"NC">>, <<"OFI">>, <<"NA">>, <<"Recommendations">> >>

\* The path written and the document saved there: one paragraph per line.
export_docx(content, now) ==
    [path |-> <<"data/finding_", now, ".docx">>,
     doc |-> lines_or_blank(content)]

\* The path written and the workbook saved there: its sheets in order, each
\* with its title and rows, a row being its cells.
export_xlsx(content, now) ==
    LET lines == lines_or_blank(content)
    IN  [path |-> <<"data/export_", now, ".xlsx">>,
         doc |-> << [title |-> "Findings", rows |-> <<Headers>>],
                    [title |-> "Output",
                     rows |-> << << <<"Output">> >> >> \o
                              [i \in 1..Len(lines) |-> <<lines[i]>>]] >>]

\* What an export leaves behind: the path returned and the document saved.
Exported(op, content, file) ==
    [Result(op, content) EXCEPT !.ret = file.path, !.doc = file.doc]

NoExport == [path |-> <<>>, doc |-> <<>>]

\* The exports called with a content of the caller's choice.
call_export_docx(content, now) ==
    /\ last' = Exported("export_docx", content, export_docx(content, now))
    /\ UNCHANGED <<BACKEND_FILE, LICENSE_FILE, hist_backend, hist_license>>

call_export_xlsx(content, now) ==
    /\ last' = Exported("export_xlsx", content, export_xlsx(content, now))
    /\ UNCHANGED <<BACKEND_FILE, LICENSE_FILE, hist_backend, hist_license>>

\* The export buttons: t is the text the output component holds, and nothing
\* is written for an empty t.
btn_docx_click(t, now) ==
    /\ last' = Exported("btn_docx", t, IF t # <<>> THEN export_docx(t, now) ELSE NoExport)
    /\ UNCHANGED <<BACKEND_FILE, LICENSE_FILE, hist_backend, hist_license>>

btn_xlsx_click(t, now) ==
    /\ last' = Exported("btn_xlsx", t, IF t # <<>> THEN export_xlsx(t, now) ELSE NoExport)
    /\ UNCHANGED <<BACKEND_FILE, LICENSE_FILE, hist_backend, hist_license>>

-----------------------------------------------------------------------------
(* Inputs. *)

Pads == {<<>>, <<" ", "\n">>}

KeyRun(n) == [i \in 1..n |-> "k"]

\* Key bodies: runs of key characters around the minimum length, and keys
\* with a blank inside.
KeyBodies ==
    {KeyRun(n) : n \in {0} \cup ((MinLicenseLen - 1)..MaxKeyLen)}
    \cup {KeyRun(3) \o <<" ">> \o KeyRun(n) : n \in {MinLicenseLen - 5, MinLicenseLen - 4}}

KeyInputs == {l \o b \o r : l \in Pads, b \in KeyBodies, r \in Pads}

UrlBodies ==
    { <<>>,
      <<"h", "t", "t">>,
      <<"f", "t", "p", ":">>,
      <<"x", "h", "t", "t", "p">>,
      HTTP \o <<":", "/", "/", "a">> }

UrlInputs == {l \o b \o r : l \in Pads, b \in UrlBodies, r \in Pads}

FileNames == [i \in 1..MaxFiles |-> "file" \o ToString(i)]

\* The batches: the first n of the file names.
FileLists == {SubSeq(FileNames, 1, n) : n \in 0..MaxFiles}

UploadOutcomes ==
    { Exc("ConnectionError"),
      Resp(200, NotJson("<html>")),
      Resp(200, Json("{}", <<>>)),
      Resp(200, Json("{chunks_added: 2}", [chunks_added |-> 2])),
      Resp(201, Json("{chunks_added: 2}", [chunks_added |-> 2])) }

UploadRuns(files) == [1..Len(files) -> UploadOutcomes]

VerifyOutcomes ==
    { Exc("ConnectionError"), Exc("Timeout"),
      Resp(200, NotJson("<html>")),
      Resp(200, Json("{}", <<>>)),
      Resp(200, Json("{plan, quota_remaining}", [plan |-> "pro", quota_remaining |-> 7])),
      Resp(304, Json("{plan, quota_remaining}", [plan |-> "pro", quota_remaining |-> 7])),
      Resp(404, NotJson("Not Found")),
      Resp(500, NotJson("Internal Server Error")) }

Answer == <<"a", "\n", "b">>

WithAnswer == Json("{answer}", [answer |-> Answer])

WithCitations ==
    Json("{answer, citations}",
         [answer |-> Answer, citations |-> << <<"c", "1">>, <<"c", "2">> >>])

ChatOutcomes ==
    { Exc("ConnectionError"), Exc("Timeout"),
      Resp(200, NotJson("<html>")),
      Resp(200, Json("{}", <<>>)),
      Resp(200, WithAnswer),
      Resp(200, WithCitations),
      Resp(304, NotJson("")),
      Resp(304, WithAnswer),
      Resp(404, WithAnswer),
      Resp(500, NotJson("Internal Server Error")),
      Resp(500, WithCitations) }

Messages == {<<"h", "i">>}

Modes == {"answer", "draft", "critique"}

Timestamps == {"20260101-000000", "20260101-000001"}

\* What the output component can hold when an export button is clicked.
OutTexts == {<<>>, Answer, <<ERR_MARK, " ", "HTTPError">>}

ContentChars == {"a", "\n", "\r"}

Contents == UNION {[1..n -> ContentChars] : n \in 0..MaxText}

-----------------------------------------------------------------------------

Init ==
    /\ BACKEND_FILE = NoFile
    /\ LICENSE_FILE = NoFile
    /\ last = Result("init", <<>>)
    /\ hist_backend = [saved |-> FALSE, arg |-> <<>>]
    /\ hist_license = [saved |-> FALSE, arg |-> <<>>]

Next ==
    \/ \E url \in UrlInputs : save_backend(url)
    \/ \E key \in KeyInputs : save_license(key)
    \/ \E out \in VerifyOutcomes : check_license(out)
    \/ \E files \in FileLists : \E outs \in UploadRuns(files) : upload_file(files, outs)
    \/ \E msg \in Messages, mode \in Modes, out \in ChatOutcomes : chat(msg, mode, out)
    \/ \E t \in OutTexts, now \in Timestamps : btn_docx_click(t, now)
    \/ \E t \in OutTexts, now \in Timestamps : btn_xlsx_click(t, now)

Spec == Init /\ [][Next]_vars

\* The export functions alone, applied to every content up to MaxText symbols.
NextExport ==
    \/ \E content \in Contents, now \in Timestamps : call_export_docx(content, now)
    \/ \E content \in Contents, now \in Timestamps : call_export_xlsx(content, now)

SpecExport == Init /\ [][NextExport]_vars

-----------------------------------------------------------------------------
(* What the claims speak of. *)

\* s trimmed: s from its first to its last symbol that is not whitespace.
TrimOf(s) ==
    LET inked == {k \in 1..Len(s) : s[k] \notin Whitespace}
    IN  IF inked = {} THEN <<>>
        ELSE SubSeq(s, CHOOSE k \in inked : \A m \in inked : k <= m,
                       CHOOSE k \in inked : \A m \in inked : k >= m)

IsTrimOf(t, s) == t = TrimOf(s)

BackendOps == {"check_license", "upload_file", "chat"}

ErrorString(text) == Len(text) >= 1 /\ text[1] = ERR_MARK

\* C1: save_backend(url) raises the validation error and leaves the stored
\* backend URL as it was exactly when url trimmed does not begin with "http";
\* for every other url it returns and the stored URL is the trimmed url.
C1_SaveBackendValidatesTrimmedUrl ==
    [][ last'.op = "save_backend" =>
            IF ~startswith(TrimOf(last'.arg), HTTP)
            THEN last'.exc = "gr.Error" /\ BACKEND_FILE' = BACKEND_FILE
            ELSE /\ last'.exc = ""
                 /\ BACKEND_FILE'.exists
                 /\ BACKEND_FILE'.text = TrimOf(last'.arg) ]_vars

\* C2: save_license(key) with a key whose trimmed length is under 8 raises the
\* validation error and leaves both settings files as they were.
C2_ShortLicenseKeyRejected ==
    [][ (last'.op = "save_license" /\ Len(TrimOf(last'.arg)) < 8) =>
            /\ last'.exc = "gr.Error"
            /\ LICENSE_FILE' = LICENSE_FILE
            /\ BACKEND_FILE' = BACKEND_FILE ]_vars

\* A short key, long before trimming, is refused after both settings were saved.
C2_Witness ==
    /\ last.op = "save_license"
    /\ Len(last.arg) >= 8
    /\ Len(TrimOf(last.arg)) < 8
    /\ last.exc = "gr.Error"
    /\ LICENSE_FILE.exists
    /\ BACKEND_FILE.exists

\* C3: with no license key stored, check_license, upload_file (whatever the
\* files) and chat end, by returning or by the missing-key error, without
\* having issued any HTTP request.
C3_NoKeyNoRequest ==
    [][ (get_license = <<>> /\ last'.op \in BackendOps) =>
            /\ last'.reqs = <<>>
            /\ last'.exc \in {"", "gr.Error"} ]_vars

\* An upload of several files stopped by the missing key.
C3_Witness ==
    /\ last.op = "upload_file"
    /\ Len(last.arg) >= 2
    /\ ~LICENSE_FILE.exists
    /\ last.exc = "gr.Error"
    /\ last.reqs = <<>>

\* C4: after save_license(key) with a key of trimmed length at least 8,
\* get_license() is the trimmed key, until the next save_license that
\* returns, whatever failed saves and backend operations come between.
C4_LicenseRoundTrip ==
    /\ (last.op = "save_license" /\ Len(TrimOf(last.arg)) >= 8) =>
           (last.exc = "" /\ get_license = TrimOf(last.arg))
    /\ hist_license.saved =>
           (Len(TrimOf(hist_license.arg)) >= 8 /\ get_license = TrimOf(hist_license.arg))

\* A padded key was saved, the backend URL too, and a failed save came after.
C4_Witness ==
    /\ hist_license.saved
    /\ hist_license.arg # TrimOf(hist_license.arg)
    /\ hist_backend.saved
    /\ last.op = "save_license"
    /\ last.exc = "gr.Error"

\* C5: while no save_backend has returned get_backend() is
\* "http://localhost:8000", and while no save_license has returned
\* get_license() is empty, after any failed saves and backend operations.
C5_Defaults ==
    /\ ~hist_backend.saved => get_backend = DEFAULT_BACKEND
    /\ ~hist_license.saved => get_license = <<>>

\* A chat request went to the default backend.
C5_Witness ==
    /\ ~hist_backend.saved
    /\ last.op = "chat"
    /\ Len(last.reqs) = 1
    /\ last.reqs[1].url = DEFAULT_BACKEND \o <<"/api/chat">>

\* The outcomes C6 names as failures, with "non-2xx" read as written.
ChatFailedNon2xx(out) ==
    \/ out.kind = "exc"
    \/ ~(200 <= out.status /\ out.status < 300)
    \/ ~out.body.json
    \/ "answer" \notin DOMAIN out.body.obj

\* The same with the statuses 400 to 599 in place of "non-2xx".
ChatFailed4xx5xx(out) ==
    \/ out.kind = "exc"
    \/ (400 <= out.status /\ out.status < 600)
    \/ ~out.body.json
    \/ "answer" \notin DOMAIN out.body.obj

Accepted(out) == out.kind = "resp" /\ out.status = 200 /\ out.body.json

RECURSIVE SumChunks(_, _)
SumChunks(outs, n) ==
    IF n = 0 THEN 0
    ELSE SumChunks(outs, n - 1) +
         (IF "chunks_added" \in DOMAIN outs[n].body.obj
          THEN outs[n].body.obj.chunks_added ELSE 0)

\* The requests issued are those of the first n files, in order.
RequestsForFirst(n) ==
    /\ Len(last.reqs) = n
    /\ \A j \in 1..n : last.reqs[j].data = <<last.arg[j]>>

C8_TransportFailureReturnsErrorString ==
    \A i \in 1..Len(last.reqs) :
        (last.op \in BackendOps /\ last.resps[i].kind = "exc") =>
            /\ Len(last.reqs) = i
            /\ last.exc = ""
            /\ ErrorString(last.ret)

\* C10: each stored setting is unset until its first save that returns and from
\* then on is the trimmed argument of the most recent such save, whatever
\* other operations and errors come between; a stored backend URL begins with
\* "http", a stored license key has at least 8 characters, and once a key was
\* saved get_license() is never empty.
C10_SettingsPersist ==
    /\ BACKEND_FILE.exists <=> hist_backend.saved
    /\ LICENSE_FILE.exists <=> hist_license.saved
    /\ BACKEND_FILE.exists =>
           (IsTrimOf(BACKEND_FILE.text, hist_backend.arg) /\ startswith(BACKEND_FILE.text, HTTP))
    /\ LICENSE_FILE.exists =>
           (IsTrimOf(LICENSE_FILE.text, hist_license.arg) /\ Len(LICENSE_FILE.text) >= 8)
    /\ hist_license.saved => get_license # <<>>

\* Both settings were saved with padding and an upload then raised.
C10_Witness ==
    /\ last.op = "upload_file"
    /\ last.exc = "ConnectionError"
    /\ BACKEND_FILE.exists
    /\ BACKEND_FILE.text # hist_backend.arg
    /\ LICENSE_FILE.exists
    /\ LICENSE_FILE.text # hist_license.arg

\* The rows of the workbook's sheet i.
SheetRows(i) == last.doc[i].rows

ExportedEmpty == last.op = "export_xlsx" /\ last.arg = <<>>

FindingsHeadersOnly ==
    /\ Len(last.doc) = 2
    /\ last.doc[1].title = "Findings"
    /\ last.doc[2].title = "Output"
    /\ Len(SheetRows(1)) = 1
    /\ Len(SheetRows(1)[1]) = 11
    /\ SheetRows(1)[1] = Headers

\* C9 as claimed: export_xlsx("") writes a "Findings" sheet holding the one row
\* of 11 headers and an "Output" sheet holding exactly one row, a single empty
\* string.
C9_OutputSheetOneRow ==
    ExportedEmpty =>
        /\ FindingsHeadersOnly
        /\ SheetRows(2) = << << <<>> >> >>

\* C9 as amended: the "Output" sheet holds its header row, the one cell
\* "Output", and after it exactly one row, a single empty string.
C9_OutputSheetHeaderAndOneRow ==
    ExportedEmpty =>
        /\ FindingsHeadersOnly
        /\ SheetRows(2) = << << <<"Output">> >>, << <<>> >> >>

\* export_xlsx("") has run.
C9_Witness ==
    /\ ExportedEmpty
    /\ last.ret = <<"data/export_", "20260101-000001", ".xlsx">>

====
